---- MODULE Spec2Model ----
(***************************************************************************)
(* A model of ratatui-image's protocol engine (src/src/protocol/mod.rs)    *)
(* and of the demo application that drives it (src/examples/demo/main.rs). *)
(*                                                                         *)
(* Seven specifications share the variables:                                *)
(*   SpecSource  ImageSource::new applied to bounded inputs                *)
(*   Spec        the StatefulProtocol operations on one Protocol State     *)
(*   SpecLife    Protocol States created, cloned, encoded and dropped      *)
(*   SpecDemo    the demo's App: its keys and its frame drawing            *)
(*   SpecKeys    the demo's App under the split and offset keys            *)
(*   SpecFrame   the widgets of a frame rendering into one buffer          *)
(*   SpecWorker  resize_encode run on workers, render on the UI thread     *)
(*                                                                         *)
(* The four backends (halfblocks, sixel, kitty, iterm2), Resize and the    *)
(* Picker are modules of the repository that mod.rs and the demo only      *)
(* call; their definitions below follow the written specification.         *)
(***************************************************************************)
EXTENDS Integers, Sequences, FiniteSets, TLC

VARIABLES
    newIn,      \* SpecSource: the arguments of ImageSource::new
    newOut,     \* SpecSource: the ImageSource it returned, or NoSource
    slots,      \* Spec: the Protocol States alive (StatefulBlock or Dead)
    term,       \* the terminal's graphics objects: the ids uploaded, not deleted
    buf,        \* the cell buffer handed to the last render, after it
    last,       \* what the last operation was called with and returned
    app,        \* SpecDemo: the demo's App
    frame,      \* SpecDemo: what the last ui() drew into each pane
    worker      \* SpecWorker: the resize_encode calls in flight on workers

vars == <<newIn, newOut, slots, term, buf, last, app, frame, worker>>

(***************************************************************************)
(* Bounds.                                                                 *)
(***************************************************************************)
BufW == 2       \* the cell buffer is BufW cells wide (and one row high)
MaxOffset == 1  \* SpecKeys follows the static image's offset this far from
                \* either end of u16

(***************************************************************************)
(* Rect, as ratatui::layout::Rect: u16 x, y, width, height.                *)
(***************************************************************************)
Rect(x, y, w, h) == [x |-> x, y |-> y, width |-> w, height |-> h]

NoRect == [x |-> 0, y |-> 0, width |-> 0, height |-> 0]

\* The areas a caller may hand in: the non-empty rectangles of the buffer.
Areas == {r \in {Rect(x, 0, w, 1) : x \in 0..(BufW - 1), w \in 1..BufW} :
              r.x + r.width <= BufW}

Cells == {<<x, 0>> : x \in 0..(BufW - 1)}

InRect(c, r) == /\ r.x <= c[1] /\ c[1] < r.x + r.width
                /\ r.y <= c[2] /\ c[2] < r.y + r.height

(***************************************************************************)
(* f32 arithmetic of round_pixel_size_to_cells.                            *)
(*   (img_width as f32 / char_width as f32).ceil() as u16                  *)
(* u32 -> f32 rounds to a 24-bit significand (nearest, ties to even); the  *)
(* quotient is correctly rounded; `as u16` saturates, and sends NaN to 0.  *)
(***************************************************************************)
U16Max == 65535
F32Digits == 24

RECURSIVE Pow2(_)
Pow2(n) == IF n <= 0 THEN 1 ELSE 2 * Pow2(n - 1)

RECURSIVE FloorLog2(_)
FloorLog2(n) == IF n <= 1 THEN 0 ELSE 1 + FloorLog2(n \div 2)

\* n as f32: exact below 2^24, else rounded to 24 significant bits.
AsF32(n) ==
    IF n < Pow2(F32Digits) THEN n
    ELSE LET s == Pow2(FloorLog2(n) - (F32Digits - 1))
             q == n \div s
             r == n % s
             up == (2 * r > s) \/ (2 * r = s /\ q % 2 = 1)
         IN  (IF up THEN q + 1 ELSE q) * s

\* ceil of the f32 quotient a / b of two f32 values (integers), as u16.
\* With n = a div b < 65535 and rem = a mod b > 0 the quotient n + rem/b
\* rounds down to n exactly when rem/b <= half an ulp of n, 2^(e-24) with
\* e = floor(log2 n) (n's significand is even, so a tie goes to n).
CeilDivF32AsU16(a, b) ==
    IF b = 0 THEN (IF a = 0 THEN 0 ELSE U16Max)
    ELSE LET n == a \div b
             rem == a % b
         IN  IF n >= U16Max THEN U16Max
             ELSE IF rem = 0 THEN n
             ELSE IF n = 0 THEN 1
             ELSE IF rem <= b \div Pow2(F32Digits - FloorLog2(n)) THEN n
             ELSE n + 1

\* The same with the quotient rounded to the nearest integer: the reading
\* of "round to the nearest matching cell size".
RoundDivAsU16(a, b) ==
    IF b = 0 THEN (IF a = 0 THEN 0 ELSE U16Max)
    ELSE LET n == (2 * a + b) \div (2 * b)
         IN  IF n >= U16Max THEN U16Max ELSE n

round_pixel_size_to_cells_nearest(img_width, img_height, font_size) ==
    Rect(0, 0, RoundDivAsU16(img_width, font_size[1]),
               RoundDivAsU16(img_height, font_size[2]))

round_pixel_size_to_cells(img_width, img_height, font_size) ==
    Rect(0, 0, CeilDivF32AsU16(AsF32(img_width), AsF32(font_size[1])),
               CeilDivF32AsU16(AsF32(img_height), AsF32(font_size[2])))

(***************************************************************************)
(* Images and ImageSource.                                                 *)
(***************************************************************************)
\* A decoded image: its pixel size and its bytes (named by the file).
Image(bytes, w, h) == [bytes |-> bytes, width |-> w, height |-> h]

\* DefaultHasher over the image's bytes: a fixed function of the bytes.
DefaultHasher(bytes) ==
    CASE bytes = "Ada" -> 11
      [] bytes = "Jenkins" -> 22
      [] OTHER -> 33

ImageSource_new(image, font_size) ==
    [image |-> image,
     font_size |-> font_size,
     desired |-> round_pixel_size_to_cells(image.width, image.height, font_size),
     hash |-> DefaultHasher(image.bytes)]

NoSource == [image |-> Image("", 0, 0), font_size |-> <<0, 0>>,
             desired |-> NoRect, hash |-> 0]

(***************************************************************************)
(* SpecSource: ImageSource::new on bounded inputs.                         *)
(***************************************************************************)
\* Pixel sizes: zero, the documented examples (100x50, 300x200), sizes
\* whose cell count passes u16 and sizes past f32's 24 significant bits.
PixelSizes == {0, 1, 50, 100, 200, 300, 458746, 16777217}

\* Font cell sizes: zero, one, the documented 7x14 and a large cell.
FontCells == {0, 1, 7, 14, 4096}

CallNew ==
    /\ newOut = NoSource
    /\ newOut' = ImageSource_new(Image("Ada", newIn.width, newIn.height),
                                 newIn.font_size)
    /\ UNCHANGED <<worker, newIn, slots, term, buf, last, app, frame>>

(***************************************************************************)
(* The resize-avoidance contract of a stateful backend.                    *)
(*                                                                         *)
(* A backend's state holds the ImageSource it was built from, the area and *)
(* the policy of its last encode, the source fingerprint of that encode,   *)
(* and the encoded payload. The kitty state also holds the id of its       *)
(* terminal-side object and whether the payload has been transmitted.      *)
(***************************************************************************)
Policies == {"Fit", "Crop"}             \* Resize::Fit(None), Resize::Crop
Backgrounds == {"None"}                 \* Option<Rgb<u8>>: StatefulImage::new(None)
Variants == {"Halfblocks", "Sixel", "Kitty", "Iterm2"}

FontSize == <<7, 14>>                   \* picker.font_size
Images == {Image("Ada", 300, 200), Image("Jenkins", 100, 50)}

\* Option<Rect>: None is the empty sequence, Some(r) is <<r>>.
None == <<>>
Some(r) == <<r>>

NoId == 0

\* A region of pixels, its sides counted in 1/unit of a pixel.
Region(w, h, unit) == [width |-> w, height |-> h, unit |-> unit]

\* Resize: the region of the target rectangle that the image fills. The
\* target is the area in pixels of the font size. Fit scales the image,
\* keeping its aspect, until its width or its height is the target's and
\* the other side is inside; Crop scales it to cover the target and cuts
\* what hangs over: the target is filled. The sides are exact fractions,
\* counted in 1/(image width * image height) of a pixel.
Resize_filled(image, font_size, policy, area) ==
    LET iw == image.width
        ih == image.height
        tw == area.width * font_size[1]
        th == area.height * font_size[2]
    IN  IF policy = "Crop"
        THEN Region(tw * iw * ih, th * iw * ih, iw * ih)
        ELSE IF tw * ih <= th * iw
             THEN Region(tw * iw * ih, tw * ih * ih, iw * ih)
             ELSE Region(th * iw * iw, th * iw * ih, iw * ih)

\* An encoded payload, named by everything that determines its bytes, with
\* the region of its area that the image fills.
NoPayload == [proto |-> "", area |-> NoRect, policy |-> "", hash |-> 0,
              background |-> "", filled |-> Region(0, 0, 1)]

Encode(proto, source, policy, background, area) ==
    [proto |-> proto, area |-> area, policy |-> policy, hash |-> source.hash,
     background |-> background,
     filled |-> Resize_filled(source.image, source.font_size, policy, area)]

\* A backend state just built from a source: nothing encoded yet.
FreshState(source, id) ==
    [source |-> source, area |-> NoRect, policy |-> "", hash |-> 0,
     payload |-> NoPayload, id |-> id, transmitted |-> FALSE]

\* needs_resize: the target area iff the cache is not valid for exactly
\* this (area, policy, source fingerprint).
Backend_needs_resize(st, policy, area) ==
    IF /\ st.payload # NoPayload
       /\ st.area = area
       /\ st.policy = policy
       /\ st.hash = st.source.hash
    THEN None
    ELSE Some(area)

\* resize_encode: encode for the area and remember what it was encoded for.
\* An unrecoverable encoding failure (ok = FALSE) leaves nothing to render.
Backend_resize_encode(proto, st, policy, background, area, ok) ==
    IF ok
    THEN [st EXCEPT !.area = area, !.policy = policy, !.hash = st.source.hash,
                    !.payload = Encode(proto, st.source, policy, background, area),
                    !.transmitted = FALSE]
    ELSE [st EXCEPT !.area = NoRect, !.policy = "", !.hash = 0,
                    !.payload = NoPayload, !.transmitted = FALSE]

\* The cells a payload covers when rendered at `area`: the payload's extent
\* placed at the area's origin, clipped to the area.
PayloadCells(payload, area) ==
    {c \in Cells : /\ InRect(c, area)
                   /\ c[1] < area.x + payload.area.width
                   /\ c[2] < area.y + payload.area.height}

\* What a render returns: the state after it, the cells it wrote (with the
\* payload written) and the commands it sent to the terminal.
Rendered(st, cells, cmds) == [state |-> st, cells |-> cells, cmds |-> cmds]

\* render of the backends that write everything through the cell buffer.
Backend_render(st, area) ==
    IF st.payload = NoPayload
    THEN Rendered(st, {}, <<>>)
    ELSE Rendered(st, PayloadCells(st.payload, area), <<>>)

Cmd(name, id, payload, area) ==
    [cmd |-> name, id |-> id, payload |-> payload, area |-> area]

StatefulHalfblocks_needs_resize(st, policy, area) ==
    Backend_needs_resize(st, policy, area)

StatefulHalfblocks_resize_encode(st, policy, background, area, ok) ==
    Backend_resize_encode("Halfblocks", st, policy, background, area, ok)

StatefulHalfblocks_render(st, area) == Backend_render(st, area)

StatefulSixel_needs_resize(st, policy, area) ==
    Backend_needs_resize(st, policy, area)

StatefulSixel_resize_encode(st, policy, background, area, ok) ==
    Backend_resize_encode("Sixel", st, policy, background, area, ok)

StatefulSixel_render(st, area) == Backend_render(st, area)

Iterm2State_needs_resize(st, policy, area) ==
    Backend_needs_resize(st, policy, area)

Iterm2State_resize_encode(st, policy, background, area, ok) ==
    Backend_resize_encode("Iterm2", st, policy, background, area, ok)

Iterm2State_render(st, area) == Backend_render(st, area)

StatefulKitty_needs_resize(st, policy, area) ==
    Backend_needs_resize(st, policy, area)

\* Two payloads of the same bytes: encoded by the same backend from the
\* same image, for the same policy, background and cell span; the position
\* of the area is no part of the bytes.
SameBytes(p, q) ==
    /\ p.proto = q.proto /\ p.hash = q.hash /\ p.filled = q.filled
    /\ p.policy = q.policy /\ p.background = q.background
    /\ p.area.width = q.area.width /\ p.area.height = q.area.height

\* The kitty resize_encode: the bytes encoded are transmitted by the next
\* render, unless they are the bytes the terminal already holds under the
\* state's id, which are then only placed again.
StatefulKitty_resize_encode(st, policy, background, area, ok) ==
    LET enc == Backend_resize_encode("Kitty", st, policy, background, area, ok)
    IN  IF ok /\ st.transmitted /\ SameBytes(st.payload, enc.payload)
        THEN [enc EXCEPT !.transmitted = TRUE]
        ELSE enc

\* The kitty render uploads the payload under the state's id the first time
\* it is rendered, and places the uploaded object at the area every time.
StatefulKitty_render(st, area) ==
    IF st.payload = NoPayload
    THEN Rendered(st, {}, <<>>)
    ELSE Rendered([st EXCEPT !.transmitted = TRUE],
                  PayloadCells(st.payload, area),
                  (IF st.transmitted THEN <<>>
                   ELSE <<Cmd("upload", st.id, st.payload, NoRect)>>)
                  \o <<Cmd("place", st.id, NoPayload, area)>>)

\* Dropping a kitty state deletes its terminal-side object by id.
StatefulKitty_drop(st) == <<Cmd("delete", st.id, NoPayload, NoRect)>>

(***************************************************************************)
(* StatefulBlock: the closed enum over the four stateful backends, and its *)
(* impl of StatefulProtocol, which forwards to the variant it holds.       *)
(***************************************************************************)
StatefulBlock(variant, inner) == [variant |-> variant, inner |-> inner]

Dead == StatefulBlock("Dead", FreshState(NoSource, NoId))

\* As StatefulBlock_needs_resize, with the Iterm2 arm not forwarded.
StatefulBlock_needs_resize_unforwarded(b, policy, area) ==
    CASE b.variant = "Halfblocks" -> StatefulHalfblocks_needs_resize(b.inner, policy, area)
      [] b.variant = "Sixel" -> StatefulSixel_needs_resize(b.inner, policy, area)
      [] b.variant = "Kitty" -> StatefulKitty_needs_resize(b.inner, policy, area)
      [] b.variant = "Iterm2" -> None

StatefulBlock_needs_resize(b, policy, area) ==
    CASE b.variant = "Halfblocks" -> StatefulHalfblocks_needs_resize(b.inner, policy, area)
      [] b.variant = "Sixel" -> StatefulSixel_needs_resize(b.inner, policy, area)
      [] b.variant = "Kitty" -> StatefulKitty_needs_resize(b.inner, policy, area)
      [] b.variant = "Iterm2" -> Iterm2State_needs_resize(b.inner, policy, area)

\* As StatefulBlock_resize_encode, resizing the source itself to the area.
StatefulBlock_resize_encode_in_place(b, policy, background, area, ok) ==
    [b EXCEPT !.inner =
        [Backend_resize_encode(b.variant, b.inner, policy, background, area, ok)
            EXCEPT !.source.desired = area]]

\* As StatefulBlock_resize_encode, with an empty Iterm2 arm.
StatefulBlock_resize_encode_less_iterm2(b, policy, background, area, ok) ==
    [b EXCEPT !.inner =
        CASE b.variant = "Halfblocks" ->
                StatefulHalfblocks_resize_encode(b.inner, policy, background, area, ok)
          [] b.variant = "Sixel" ->
                StatefulSixel_resize_encode(b.inner, policy, background, area, ok)
          [] b.variant = "Kitty" ->
                StatefulKitty_resize_encode(b.inner, policy, background, area, ok)
          [] b.variant = "Iterm2" -> b.inner]

StatefulBlock_resize_encode(b, policy, background, area, ok) ==
    [b EXCEPT !.inner =
        CASE b.variant = "Halfblocks" ->
                StatefulHalfblocks_resize_encode(b.inner, policy, background, area, ok)
          [] b.variant = "Sixel" ->
                StatefulSixel_resize_encode(b.inner, policy, background, area, ok)
          [] b.variant = "Kitty" ->
                StatefulKitty_resize_encode(b.inner, policy, background, area, ok)
          [] b.variant = "Iterm2" ->
                Iterm2State_resize_encode(b.inner, policy, background, area, ok)]

\* As StatefulBlock_render, encoding for the area when nothing is cached.
StatefulBlock_render_resizing(b, area) ==
    LET st == IF b.inner.payload = NoPayload
              THEN Backend_resize_encode(b.variant, b.inner, "Fit", "None", area, TRUE)
              ELSE b.inner
        r == IF b.variant = "Kitty" THEN StatefulKitty_render(st, area)
             ELSE Backend_render(st, area)
    IN  Rendered([b EXCEPT !.inner = r.state], r.cells, r.cmds)

\* As StatefulBlock_render, taking the payload out of the state it renders.
StatefulBlock_render_taking(b, area) ==
    LET r == IF b.variant = "Kitty" THEN StatefulKitty_render(b.inner, area)
             ELSE Backend_render(b.inner, area)
    IN  Rendered([b EXCEPT !.inner = [r.state EXCEPT !.payload = NoPayload]],
                 r.cells, r.cmds)

\* As StatefulBlock_render, on a copy of the state: what the render changed
\* in the state is lost.
StatefulBlock_render_on_copy(b, area) ==
    LET r == CASE b.variant = "Halfblocks" -> StatefulHalfblocks_render(b.inner, area)
               [] b.variant = "Sixel" -> StatefulSixel_render(b.inner, area)
               [] b.variant = "Kitty" -> StatefulKitty_render(b.inner, area)
               [] b.variant = "Iterm2" -> Iterm2State_render(b.inner, area)
    IN  Rendered(b, r.cells, r.cmds)

StatefulBlock_render(b, area) ==
    LET r == CASE b.variant = "Halfblocks" -> StatefulHalfblocks_render(b.inner, area)
               [] b.variant = "Sixel" -> StatefulSixel_render(b.inner, area)
               [] b.variant = "Kitty" -> StatefulKitty_render(b.inner, area)
               [] b.variant = "Iterm2" -> Iterm2State_render(b.inner, area)
    IN  Rendered([b EXCEPT !.inner = r.state], r.cells, r.cmds)

\* #[derive(Clone)]: the clone holds the same variant and a copy of every
\* field of the state it wraps.
StatefulBlock_clone(b) == StatefulBlock(b.variant, b.inner)

\* Dropping the block drops the state it wraps.
StatefulBlock_drop(b) ==
    IF b.variant = "Kitty" THEN StatefulKitty_drop(b.inner) ELSE <<>>

(***************************************************************************)
(* StatefulProtocol::resize_encode_render, the trait's provided method.    *)
(***************************************************************************)
\* One call made on the protocol, with what it was given and returned.
Call(fn, policy, background, area, ret) ==
    [fn |-> fn, policy |-> policy, background |-> background, area |-> area,
     ret |-> ret]

\* As resize_encode_render, encoding only while nothing has been encoded.
resize_encode_render_once(b, policy, background, area, ok) ==
    LET need == IF b.inner.payload = NoPayload THEN Some(area) ELSE None
        b1 == IF need # None
              THEN StatefulBlock_resize_encode(b, policy, background, need[1], ok)
              ELSE b
        r == StatefulBlock_render(b1, area)
    IN  [state |-> r.state, cells |-> r.cells, cmds |-> r.cmds,
         calls |-> <<Call("needs_resize", policy, "", area, need)>>
                   \o (IF need # None
                       THEN <<Call("resize_encode", policy, background, need[1], None)>>
                       ELSE <<>>)
                   \o <<Call("render", "", "", area, None)>>]

\* As resize_encode_render, encoding on every call whatever needs_resize says.
resize_encode_render_eager(b, policy, background, area, ok) ==
    LET need == StatefulBlock_needs_resize(b, policy, area)
        b1 == StatefulBlock_resize_encode(b, policy, background, area, ok)
        r == StatefulBlock_render(b1, area)
    IN  [state |-> r.state, cells |-> r.cells, cmds |-> r.cmds,
         calls |-> <<Call("needs_resize", policy, "", area, need),
                     Call("resize_encode", policy, background, area, None),
                     Call("render", "", "", area, None)>>]

\* As resize_encode_render, rendering at the buffer's own area.
resize_encode_render_unclipped(b, policy, background, area, ok) ==
    LET need == StatefulBlock_needs_resize(b, policy, area)
        b1 == IF need # None
              THEN StatefulBlock_resize_encode(b, policy, background, need[1], ok)
              ELSE b
        r == StatefulBlock_render(b1, Rect(0, 0, BufW, 1))
    IN  [state |-> r.state, cells |-> r.cells, cmds |-> r.cmds,
         calls |-> <<Call("needs_resize", policy, "", area, need)>>
                   \o (IF need # None
                       THEN <<Call("resize_encode", policy, background, need[1], None)>>
                       ELSE <<>>)
                   \o <<Call("render", "", "", area, None)>>]

resize_encode_render(b, policy, background, area, ok) ==
    LET need == StatefulBlock_needs_resize(b, policy, area)
        b1 == IF need # None
              THEN StatefulBlock_resize_encode(b, policy, background, need[1], ok)
              ELSE b
        r == StatefulBlock_render(b1, area)
    IN  [state |-> r.state, cells |-> r.cells, cmds |-> r.cmds,
         calls |-> <<Call("needs_resize", policy, "", area, need)>>
                   \o (IF need # None
                       THEN <<Call("resize_encode", policy, background, need[1], None)>>
                       ELSE <<>>)
                   \o <<Call("render", "", "", area, None)>>]

(***************************************************************************)
(* The terminal and the cell buffer.                                       *)
(***************************************************************************)
\* The terminal keeps an object under each id uploaded, until it is deleted.
ApplyCmd(t, c) ==
    CASE c.cmd = "upload" -> t \cup {c.id}
      [] c.cmd = "delete" -> t \ {c.id}
      [] OTHER -> t

RECURSIVE ApplyCmds(_, _)
ApplyCmds(t, cmds) ==
    IF cmds = <<>> THEN t ELSE ApplyCmds(ApplyCmd(t, Head(cmds)), Tail(cmds))

\* A frame's buffer before an image is rendered: no cell holds a payload.
BlankBuffer == [c \in Cells |-> NoPayload]

\* The buffer after a render wrote `payload` into `cells`.
Written(b, cells, payload) ==
    [c \in Cells |-> IF c \in cells THEN payload ELSE b[c]]

(***************************************************************************)
(* FixedBlock: the closed enum over the four fixed protocols.              *)
(***************************************************************************)
FixedBlock(variant, payload) == [variant |-> variant, payload |-> payload]

\* A fixed protocol holds the one payload encoded when it was built, for
\* one rect; its render writes that payload, clipped to the area.
Halfblocks_render(payload, area) == PayloadCells(payload, area)
Sixel_render(payload, area) == PayloadCells(payload, area)
Kitty_render(payload, area) == PayloadCells(payload, area)
FixedIterm2_render(payload, area) == PayloadCells(payload, area)

FixedBlock_render(f, area) ==
    CASE f.variant = "Halfblocks" -> Halfblocks_render(f.payload, area)
      [] f.variant = "Sixel" -> Sixel_render(f.payload, area)
      [] f.variant = "Kitty" -> Kitty_render(f.payload, area)
      [] f.variant = "Iterm2" -> FixedIterm2_render(f.payload, area)

\* rect of a fixed protocol: the rect its payload was encoded for.
Halfblocks_rect(payload) == payload.area
Sixel_rect(payload) == payload.area
Kitty_rect(payload) == payload.area
FixedIterm2_rect(payload) == payload.area

FixedBlock_rect(f) ==
    CASE f.variant = "Halfblocks" -> Halfblocks_rect(f.payload)
      [] f.variant = "Sixel" -> Sixel_rect(f.payload)
      [] f.variant = "Kitty" -> Kitty_rect(f.payload)
      [] f.variant = "Iterm2" -> FixedIterm2_rect(f.payload)

\* size(): the rect of the static image.
size == Rect(0, 0, 30, 16)

\* Picker::new_protocol: a fixed protocol of the picker's backend.
Picker_new_protocol(variant, image, rect, policy) ==
    FixedBlock(variant,
               Encode(variant, ImageSource_new(image, FontSize), policy, "None", rect))

\* Image::render and StatefulImage::render, the widgets of the two kinds.
Image_render(f, area) == FixedBlock_render(f, area)

StatefulImage_render(b, resize, area, ok) ==
    resize_encode_render(b, resize, "None", area, ok)

(***************************************************************************)
(* Spec: Protocol States in slots, and the operations a caller may apply.  *)
(***************************************************************************)
\* Two places a caller keeps a Protocol State in.
Slot == {"a", "b"}

Live(i) == slots[i].variant # "Dead"

UsedIds == {slots[i].inner.id : i \in Slot} \ {NoId}

\* An object id no live state holds.
FreshId(used) ==
    CHOOSE n \in 1..(Cardinality(used) + 1) :
        /\ n \notin used
        /\ \A m \in 1..(Cardinality(used) + 1) : m \notin used => n <= m

\* Picker::new_resize_protocol: a fresh state of the picker's backend.
Picker_new_resize_protocol(variant, image, used) ==
    StatefulBlock(variant,
                  FreshState(ImageSource_new(image, FontSize),
                             IF variant = "Kitty" THEN FreshId(used) ELSE NoId))

\* The record of an operation: the slot, variant and object id of the block
\* it was applied to, its arguments, what it returned, the calls it made on
\* the protocol and the commands it sent to the terminal.
Last(op, slot, b, policy, background, area, ok, ret, calls, cmds) ==
    [op |-> op, slot |-> slot, variant |-> b.variant, id |-> b.inner.id,
     policy |-> policy, background |-> background, area |-> area, ok |-> ok,
     ret |-> ret, calls |-> calls, cmds |-> cmds]

NoLast == Last("init", "", Dead, "", "", NoRect, TRUE, None, <<>>, <<>>)

NoApp == [running |-> FALSE]
NoFrame ==
    [static |-> BlankBuffer, crop |-> BlankBuffer, fit |-> BlankBuffer,
     constraints |-> <<>>]
NoNewIn == [width |-> 0, height |-> 0, font_size |-> <<0, 0>>]

NewState(j, variant, image) ==
    /\ ~Live(j)
    /\ slots' = [slots EXCEPT ![j] = Picker_new_resize_protocol(variant, image, UsedIds)]
    /\ last' = Last("new", j, slots'[j], "", "", NoRect, TRUE, None, <<>>, <<>>)
    /\ buf' = BlankBuffer
    /\ UNCHANGED <<worker, newIn, newOut, term, app, frame>>

CloneState(i, j) ==
    /\ Live(i)
    /\ ~Live(j)
    /\ slots' = [slots EXCEPT ![j] = StatefulBlock_clone(slots[i])]
    /\ last' = Last("clone", j, slots'[j], "", "", NoRect, TRUE, None, <<>>, <<>>)
    /\ buf' = BlankBuffer
    /\ UNCHANGED <<worker, newIn, newOut, term, app, frame>>

DropState(i) ==
    /\ Live(i)
    /\ slots' = [slots EXCEPT ![i] = Dead]
    /\ term' = ApplyCmds(term, StatefulBlock_drop(slots[i]))
    /\ last' = Last("drop", i, slots[i], "", "", NoRect, TRUE, None, <<>>,
                    StatefulBlock_drop(slots[i]))
    /\ buf' = BlankBuffer
    /\ UNCHANGED <<worker, newIn, newOut, app, frame>>

\* The source of a state is replaced by another image's.
SetSource(i, image) ==
    /\ Live(i)
    /\ slots[i].inner.source.image # image
    /\ slots' = [slots EXCEPT ![i].inner.source = ImageSource_new(image, FontSize)]
    /\ last' = Last("set_source", i, slots[i], "", "", NoRect, TRUE, None, <<>>, <<>>)
    /\ buf' = BlankBuffer
    /\ UNCHANGED <<worker, newIn, newOut, term, app, frame>>

NeedsResize(i, policy, area) ==
    /\ Live(i)
    /\ last' = Last("needs_resize", i, slots[i], policy, "", area, TRUE,
                    StatefulBlock_needs_resize(slots[i], policy, area),
                    <<>>, <<>>)
    /\ buf' = BlankBuffer
    /\ UNCHANGED <<worker, newIn, newOut, slots, term, app, frame>>

ResizeEncode(i, policy, background, area, ok) ==
    /\ Live(i)
    /\ slots' = [slots EXCEPT ![i] =
                    StatefulBlock_resize_encode(slots[i], policy, background, area, ok)]
    /\ last' = Last("resize_encode", i, slots[i], policy, background, area, ok, None,
                    <<>>, <<>>)
    /\ buf' = BlankBuffer
    /\ UNCHANGED <<worker, newIn, newOut, term, app, frame>>

Render(i, area) ==
    LET r == StatefulBlock_render(slots[i], area) IN
    /\ Live(i)
    /\ slots' = [slots EXCEPT ![i] = r.state]
    /\ term' = ApplyCmds(term, r.cmds)
    /\ buf' = Written(BlankBuffer, r.cells, r.state.inner.payload)
    /\ last' = Last("render", i, slots[i], "", "", area, TRUE, None, <<>>, r.cmds)
    /\ UNCHANGED <<worker, newIn, newOut, app, frame>>

\* The fixed protocol the picker builds for the backend and the image of
\* state i is asked its rect and rendered.
RenderFixed(i, area) ==
    LET f == Picker_new_protocol(slots[i].variant, slots[i].inner.source.image,
                                 size, "Fit")
    IN
    /\ Live(i)
    /\ buf' = Written(BlankBuffer, FixedBlock_render(f, area), f.payload)
    /\ last' = Last("render_fixed", i, slots[i], "Fit", "None", area, TRUE,
                    Some(FixedBlock_rect(f)), <<>>, <<>>)
    /\ UNCHANGED <<worker, newIn, newOut, slots, term, app, frame>>

ResizeEncodeRender(i, policy, background, area, ok) ==
    LET r == resize_encode_render(slots[i], policy, background, area, ok) IN
    /\ Live(i)
    /\ slots' = [slots EXCEPT ![i] = r.state]
    /\ term' = ApplyCmds(term, r.cmds)
    /\ buf' = Written(BlankBuffer, r.cells, r.state.inner.payload)
    /\ last' = Last("resize_encode_render", i, slots[i], policy, background,
                    area, ok, None, r.calls, r.cmds)
    /\ UNCHANGED <<worker, newIn, newOut, app, frame>>

\* Spec: one Protocol State of any backend, just built from any image, and
\* every operation of StatefulProtocol applied to it in any order.
Init ==
    /\ worker = {}
    /\ newIn = NoNewIn
    /\ newOut = NoSource
    /\ \E v \in Variants, img \in Images :
          slots = [i \in Slot |-> IF i = "a"
                                  THEN Picker_new_resize_protocol(v, img, {})
                                  ELSE Dead]
    /\ term = {}
    /\ buf = BlankBuffer
    /\ last = NoLast
    /\ app = NoApp
    /\ frame = NoFrame

Next ==
    \/ \E i \in Slot, img \in Images : SetSource(i, img)
    \/ \E i \in Slot, p \in Policies, a \in Areas : NeedsResize(i, p, a)
    \/ \E i \in Slot, p \in Policies, g \in Backgrounds, a \in Areas, ok \in BOOLEAN :
            ResizeEncode(i, p, g, a, ok)
    \/ \E i \in Slot, a \in Areas : Render(i, a)
    \/ \E i \in Slot, a \in Areas : RenderFixed(i, a)
    \/ \E i \in Slot, p \in Policies, g \in Backgrounds, a \in Areas, ok \in BOOLEAN :
            ResizeEncodeRender(i, p, g, a, ok)

Spec == Init /\ [][Next]_vars

\* SpecLife: Protocol States are built, cloned, encoded, rendered and
\* dropped, two alive at a time.
\* One backend that only writes cells and the one with terminal-side objects.
LifeVariants == {"Halfblocks", "Kitty"}

InitLife ==
    /\ worker = {}
    /\ newIn = NoNewIn
    /\ newOut = NoSource
    /\ slots = [i \in Slot |-> Dead]
    /\ term = {}
    /\ buf = BlankBuffer
    /\ last = NoLast
    /\ app = NoApp
    /\ frame = NoFrame

NextLife ==
    \/ \E j \in Slot, v \in LifeVariants : NewState(j, v, Image("Ada", 300, 200))
    \/ \E i, j \in Slot : CloneState(i, j)
    \/ \E i \in Slot : DropState(i)
    \/ \E i \in Slot, p \in Policies, g \in Backgrounds, a \in Areas :
            ResizeEncode(i, p, g, a, TRUE)
    \/ \E i \in Slot, a \in Areas : Render(i, a)

SpecLife == InitLife /\ [][NextLife]_vars

\* SpecFrame: one frame buffer that the widgets of a frame render into one
\* after the other, as in ui(): text first, then images over it, each in
\* the area it is given.
\* The cell of a Paragraph: text, no image payload.
Text == [proto |-> "text", area |-> NoRect, policy |-> "", hash |-> 0,
         background |-> "", filled |-> Region(0, 0, 1)]

TextBuffer == [c \in Cells |-> Text]

\* A Paragraph fills the frame with text.
FrameParagraph ==
    /\ buf # TextBuffer
    /\ buf' = TextBuffer
    /\ last' = Last("paragraph", "", Dead, "", "", Rect(0, 0, BufW, 1), TRUE, None,
                    <<>>, <<>>)
    /\ UNCHANGED <<worker, newIn, newOut, slots, term, app, frame>>

\* The Image widget renders the fixed protocol of the backend and image of
\* state i.
FrameImage(i, area) ==
    LET f == Picker_new_protocol(slots[i].variant, slots[i].inner.source.image,
                                 size, "Fit")
    IN
    /\ Live(i)
    /\ buf' = Written(buf, Image_render(f, area), f.payload)
    /\ last' = Last("render_fixed", i, slots[i], "Fit", "None", area, TRUE,
                    Some(FixedBlock_rect(f)), <<>>, <<>>)
    /\ UNCHANGED <<worker, newIn, newOut, slots, term, app, frame>>

\* render is called on state i.
FrameRender(i, area) ==
    LET r == StatefulBlock_render(slots[i], area) IN
    /\ Live(i)
    /\ slots' = [slots EXCEPT ![i] = r.state]
    /\ term' = ApplyCmds(term, r.cmds)
    /\ buf' = Written(buf, r.cells, r.state.inner.payload)
    /\ last' = Last("render", i, slots[i], "", "", area, TRUE, None, <<>>, r.cmds)
    /\ UNCHANGED <<worker, newIn, newOut, app, frame>>

\* The StatefulImage widget renders state i.
FrameStatefulImage(i, policy, area, ok) ==
    LET r == StatefulImage_render(slots[i], policy, area, ok) IN
    /\ Live(i)
    /\ slots' = [slots EXCEPT ![i] = r.state]
    /\ term' = ApplyCmds(term, r.cmds)
    /\ buf' = Written(buf, r.cells, r.state.inner.payload)
    /\ last' = Last("resize_encode_render", i, slots[i], policy, "None", area, ok,
                    None, r.calls, r.cmds)
    /\ UNCHANGED <<worker, newIn, newOut, app, frame>>

InitFrame ==
    /\ worker = {}
    /\ newIn = NoNewIn
    /\ newOut = NoSource
    /\ \E v \in Variants :
          slots = [i \in Slot |-> IF i = "a"
                                  THEN Picker_new_resize_protocol(
                                           v, Image("Ada", 300, 200), {})
                                  ELSE Dead]
    /\ term = {}
    /\ buf = TextBuffer
    /\ last = NoLast
    /\ app = NoApp
    /\ frame = NoFrame

NextFrame ==
    \/ FrameParagraph
    \/ \E i \in Slot, a \in Areas : FrameImage(i, a)
    \/ \E i \in Slot, a \in Areas : FrameRender(i, a)
    \/ \E i \in Slot, a \in Areas, ok \in BOOLEAN :
            FrameStatefulImage(i, "Fit", a, ok)

SpecFrame == InitFrame /\ [][NextFrame]_vars

\* SpecWorker: the caller runs needs_resize on the UI thread and
\* resize_encode on a worker, as the trait's comments propose, and
\* renders on the UI thread. resize_encode writes the state it was given
\* in place, in two steps.
\* needs_resize, resize_encode and render take &mut self: one of them can
\* be called on a state only while no other call holds it.
BorrowMut_unchecked(w, i) == TRUE

BorrowMut(w, i) == \A j \in w : j.slot # i

\* The payload of a state while its resize_encode is writing it.
PartialPayload == [proto |-> "partial", area |-> NoRect, policy |-> "", hash |-> 0,
                   background |-> "", filled |-> Region(0, 0, 1)]

\* A resize_encode in flight: the state it borrowed (slot i), as it was
\* when the call began, the arguments, and how far it is.
Job(i, before, policy, background, area, ok, step) ==
    [slot |-> i, before |-> before, policy |-> policy, background |-> background,
     area |-> area, ok |-> ok, step |-> step]

\* The UI thread finds that state i needs a resize and sends it to a
\* worker, which begins resize_encode for the target.
WorkerStart(i, policy, background, area, ok) ==
    LET need == StatefulBlock_needs_resize(slots[i], policy, area) IN
    /\ Live(i)
    /\ BorrowMut(worker, i)
    /\ need # None
    /\ worker' = worker \cup
                    {Job(i, slots[i], policy, background, need[1], ok, "started")}
    /\ last' = Last("start", i, slots[i], policy, background, area, ok, need,
                    <<>>, <<>>)
    /\ buf' = BlankBuffer
    /\ UNCHANGED <<newIn, newOut, slots, term, app, frame>>

\* The worker is writing the new payload into the state.
WorkerWrite(j) ==
    /\ j \in worker
    /\ j.step = "started"
    /\ slots' = [slots EXCEPT ![j.slot].inner.payload = PartialPayload]
    /\ worker' = (worker \ {j}) \cup {[j EXCEPT !.step = "writing"]}
    /\ last' = Last("write", j.slot, slots[j.slot], j.policy, j.background, j.area,
                    j.ok, None, <<>>, <<>>)
    /\ buf' = BlankBuffer
    /\ UNCHANGED <<newIn, newOut, term, app, frame>>

\* resize_encode returns: the state is as resize_encode leaves it, and the
\* worker hands it back.
WorkerFinish(j) ==
    /\ j \in worker
    /\ j.step = "writing"
    /\ slots' = [slots EXCEPT ![j.slot] =
                    StatefulBlock_resize_encode(j.before, j.policy, j.background,
                                                j.area, j.ok)]
    /\ worker' = worker \ {j}
    /\ last' = Last("finish", j.slot, slots[j.slot], j.policy, j.background, j.area,
                    j.ok, None, <<>>, <<>>)
    /\ buf' = BlankBuffer
    /\ UNCHANGED <<newIn, newOut, term, app, frame>>

\* A step of the worker that holds state i.
WorkerStep(i) == \E j \in worker : j.slot = i /\ (WorkerWrite(j) \/ WorkerFinish(j))

\* The UI thread renders state i.
UIRender(i, area) ==
    /\ BorrowMut(worker, i)
    /\ Render(i, area)

InitWorker ==
    /\ worker = {}
    /\ newIn = NoNewIn
    /\ newOut = NoSource
    /\ slots = [i \in Slot |-> Picker_new_resize_protocol(
                                   "Sixel", Image("Ada", 300, 200), {})]
    /\ term = {}
    /\ buf = BlankBuffer
    /\ last = NoLast
    /\ app = NoApp
    /\ frame = NoFrame

\* The areas the image pane takes: it keeps its corner and changes width.
PaneAreas == {a \in Areas : a.x = 0}

NextWorker ==
    \/ \E i \in Slot, g \in Backgrounds, a \in PaneAreas, ok \in BOOLEAN :
            WorkerStart(i, "Fit", g, a, ok)
    \/ \E i \in Slot : WorkerStep(i)
    \/ \E i \in Slot, a \in PaneAreas : UIRender(i, a)

\* A worker that has begun a resize_encode is scheduled until it returns.
SpecWorker ==
    /\ InitWorker /\ [][NextWorker]_vars
    /\ \A i \in Slot : WF_vars(WorkerStep(i))

InitSource ==
    /\ worker = {}
    /\ newIn \in [width : PixelSizes, height : PixelSizes,
                  font_size : FontCells \X FontCells]
    /\ newOut = NoSource
    /\ slots = [i \in Slot |-> Dead]
    /\ term = {}
    /\ buf = BlankBuffer
    /\ last = NoLast
    /\ app = NoApp
    /\ frame = NoFrame

NextSource == CallNew

SpecSource == InitSource /\ [][NextSource]_vars

(***************************************************************************)
(* Properties of the resize-avoidance contract (Spec).                     *)
(***************************************************************************)
\* The block an operation was applied to.
Acted == slots[last.slot]

\* The cached payload does not stand for (area, policy, fingerprint): there
\* is none, or the last encode was for another area, policy or fingerprint.
Stale(b, policy, area) ==
    \/ b.inner.payload = NoPayload
    \/ b.inner.payload.area # area
    \/ b.inner.payload.policy # policy
    \/ b.inner.payload.hash # b.inner.source.hash

\* A state on which no encode has left anything: as it was built.
IsFresh(b) ==
    /\ b.variant # "Dead"
    /\ b.inner = FreshState(b.inner.source, b.inner.id)

\* C1: every payload a resize_encode_render call writes into the buffer was
\* encoded for that call's area and policy and for the fingerprint of the
\* state's source: no payload encoded for another triple is rendered by it.
C1_RenderedPayloadIsForThisCall ==
    last.op = "resize_encode_render" =>
        \A c \in Cells :
            buf[c] # NoPayload =>
                /\ buf[c] = Acted.inner.payload
                /\ buf[c].area = last.area
                /\ buf[c].policy = last.policy
                /\ buf[c].hash = Acted.inner.source.hash

\* A resize_encode_render that found its cache valid and rendered it.
C1_Witness ==
    /\ last.op = "resize_encode_render"
    /\ Len(last.calls) = 2
    /\ \E c \in Cells : buf[c] # NoPayload

\* C2: needs_resize returns the area as its target exactly when the cached
\* payload is stale for (policy, area, source fingerprint) - nothing was
\* encoded yet, or the last encode was for another area, policy or
\* fingerprint - and returns nothing when the cache stands for that triple.
C2_NeedsResizeIffStale ==
    last.op = "needs_resize" =>
        /\ Stale(Acted, last.policy, last.area) => last.ret = Some(last.area)
        /\ ~Stale(Acted, last.policy, last.area) => last.ret = None

\* A needs_resize that returned nothing: the second call of an identical one.
C2_Witness ==
    /\ last.op = "needs_resize"
    /\ last.ret = None
    /\ ~Stale(Acted, last.policy, last.area)

\* C3: a resize_encode_render call makes its calls in this order:
\* needs_resize once with the caller's policy and area; resize_encode once,
\* with the rect needs_resize returned, exactly when it returned one; render
\* once, last, with the caller's area. The state and the buffer after the
\* call are those of these steps.
C3_StepsInOrder ==
    [][last'.op = "resize_encode_render" =>
        LET b == slots[last'.slot]
            need == StatefulBlock_needs_resize(b, last'.policy, last'.area)
            b1 == IF need = None THEN b
                  ELSE StatefulBlock_resize_encode(b, last'.policy,
                                                   last'.background, need[1], last'.ok)
            r == StatefulBlock_render(b1, last'.area)
        IN  /\ last'.calls[1] = Call("needs_resize", last'.policy, "", last'.area, need)
            /\ need = None =>
                 /\ Len(last'.calls) = 2
            /\ need # None =>
                 /\ Len(last'.calls) = 3
                 /\ last'.calls[2] = Call("resize_encode", last'.policy,
                                          last'.background, need[1], None)
            /\ last'.calls[Len(last'.calls)] = Call("render", "", "", last'.area, None)
            /\ slots'[last'.slot] = r.state
            /\ buf' = Written(BlankBuffer, r.cells, r.state.inner.payload)
    ]_vars

\* A resize_encode_render that had to encode before it rendered.
C3_Witness ==
    /\ last.op = "resize_encode_render"
    /\ Len(last.calls) = 3
    /\ last.calls[2].fn = "resize_encode"
    /\ last.ok
    /\ \E c \in Cells : buf[c] # NoPayload

\* C4: render on a state of any backend on which nothing has been encoded
\* writes no cell of the buffer.
C4_FreshRenderIsBlank ==
    [][(last'.op = "render" /\ IsFresh(slots[last'.slot])) => buf' = BlankBuffer]_vars

\* A render of a state as it was built, which left the buffer blank.
C4_Witness ==
    /\ last.op = "render"
    /\ IsFresh(Acted)
    /\ buf = BlankBuffer

\* C5: render leaves the cached area, policy, fingerprint and payload of the
\* state, and its source, as they were, so needs_resize answers the same for
\* every (policy, area) right before and right after a render.
C5_RenderKeepsCache ==
    [][last'.op = "render" =>
        LET b == slots[last'.slot]
            a == slots'[last'.slot]
        IN  /\ a.inner.area = b.inner.area
            /\ a.inner.policy = b.inner.policy
            /\ a.inner.hash = b.inner.hash
            /\ a.inner.payload = b.inner.payload
            /\ a.inner.source = b.inner.source
            /\ \A p \in Policies, r \in Areas :
                 StatefulBlock_needs_resize(a, p, r) = StatefulBlock_needs_resize(b, p, r)
    ]_vars

\* A render that wrote a payload, and changed the state (a kitty state now
\* knows its payload is transmitted) without touching the cache.
C5_Witness ==
    /\ last.op = "render"
    /\ last.variant = "Kitty"
    /\ Acted.inner.transmitted
    /\ \E c \in Cells : buf[c] # NoPayload

(***************************************************************************)
(* Properties of the dispatch of StatefulBlock and FixedBlock (Spec).      *)
(***************************************************************************)
\* The backends used directly: the operation of the backend named v.
Direct_needs_resize(v, st, policy, area) ==
    CASE v = "Halfblocks" -> StatefulHalfblocks_needs_resize(st, policy, area)
      [] v = "Sixel" -> StatefulSixel_needs_resize(st, policy, area)
      [] v = "Kitty" -> StatefulKitty_needs_resize(st, policy, area)
      [] v = "Iterm2" -> Iterm2State_needs_resize(st, policy, area)

Direct_resize_encode(v, st, policy, background, area, ok) ==
    CASE v = "Halfblocks" -> StatefulHalfblocks_resize_encode(st, policy, background, area, ok)
      [] v = "Sixel" -> StatefulSixel_resize_encode(st, policy, background, area, ok)
      [] v = "Kitty" -> StatefulKitty_resize_encode(st, policy, background, area, ok)
      [] v = "Iterm2" -> Iterm2State_resize_encode(st, policy, background, area, ok)

Direct_render(v, st, area) ==
    CASE v = "Halfblocks" -> StatefulHalfblocks_render(st, area)
      [] v = "Sixel" -> StatefulSixel_render(st, area)
      [] v = "Kitty" -> StatefulKitty_render(st, area)
      [] v = "Iterm2" -> Iterm2State_render(st, area)

Direct_fixed_render(v, payload, area) ==
    CASE v = "Halfblocks" -> Halfblocks_render(payload, area)
      [] v = "Sixel" -> Sixel_render(payload, area)
      [] v = "Kitty" -> Kitty_render(payload, area)
      [] v = "Iterm2" -> FixedIterm2_render(payload, area)

\* C16: each operation on a block has the result and the effect of the same
\* operation, with the same arguments, on the backend state the block
\* wraps: needs_resize returns what the backend returns and changes
\* nothing, resize_encode and render leave the backend's state after the
\* operation, render writes the backend's cells and sends its commands, a
\* fixed block's render and rect are those of its backend; no state in
\* another slot changes, and the variant of a block never changes.
C16_BlockIsItsBackend ==
    [][\A i \in Slot :
        LET v == slots[i].variant
            st == slots[i].inner
            l == last'
            fixed == Encode(v, st.source, "Fit", "None", size)
        IN  /\ slots'[i].variant = v
            /\ l.slot # i => slots'[i] = slots[i]
            /\ (l.slot = i /\ l.op = "needs_resize") =>
                 /\ l.ret = Direct_needs_resize(v, st, l.policy, l.area)
                 /\ slots'[i].inner = st
            /\ (l.slot = i /\ l.op = "resize_encode") =>
                 slots'[i].inner =
                    Direct_resize_encode(v, st, l.policy, l.background, l.area, l.ok)
            /\ (l.slot = i /\ l.op = "render") =>
                 LET r == Direct_render(v, st, l.area)
                 IN  /\ slots'[i].inner = r.state
                     /\ l.cmds = r.cmds
                     /\ buf' = Written(BlankBuffer, r.cells, r.state.payload)
            /\ (l.slot = i /\ l.op = "render_fixed") =>
                 /\ slots'[i].inner = st
                 /\ l.ret = Some(size)
                 /\ buf' = Written(BlankBuffer,
                                   Direct_fixed_render(v, fixed, l.area), fixed)
      ]_vars

\* An iterm2 block whose resize_encode left a payload encoded by iterm2.
C16_Witness ==
    /\ last.op = "resize_encode"
    /\ last.variant = "Iterm2"
    /\ Acted.inner.payload = Encode("Iterm2", Acted.inner.source, last.policy,
                                    last.background, last.area)

(***************************************************************************)
(* Properties of rendering into a frame (SpecFrame).                       *)
(***************************************************************************)
\* C13: a render - of a fixed protocol, of a state, or within
\* resize_encode_render - leaves every cell outside its area as it was,
\* and a cell inside the area either as it was or holding the payload of
\* the protocol rendered, whatever the cell held and whatever rect the
\* payload was encoded for.
C13_RenderStaysInArea ==
    [][last'.op \in {"render", "render_fixed", "resize_encode_render"} =>
        LET i == last'.slot
            payload == IF last'.op = "render_fixed"
                       THEN Encode(slots[i].variant, slots[i].inner.source,
                                   "Fit", "None", size)
                       ELSE slots'[i].inner.payload
        IN  \A c \in Cells :
              /\ ~InRect(c, last'.area) => buf'[c] = buf[c]
              /\ InRect(c, last'.area) => buf'[c] \in {buf[c], payload}
      ]_vars

\* A state rendered at an area other than the one its payload was encoded
\* for, next to a cell that holds the fixed protocol's payload, encoded for
\* a rect larger than the buffer.
C13_Witness ==
    /\ last.op = "render"
    /\ Acted.inner.payload # NoPayload
    /\ Acted.inner.payload.area # last.area
    /\ \E c \in Cells : InRect(c, last.area) /\ buf[c] = Acted.inner.payload
    /\ \E c \in Cells : /\ ~InRect(c, last.area)
                        /\ buf[c].area = size

(***************************************************************************)
(* Properties of moving a kitty image (Spec).                              *)
(***************************************************************************)
\* The kitty block was just rendered, and the payload it holds is valid for
\* the policy and for an area of the same size at another position.
MovedOnly(b, policy, area) ==
    /\ b.variant = "Kitty"
    /\ b.inner.payload # NoPayload
    /\ last.op \in {"render", "resize_encode_render"}
    /\ last.cmds # <<>>
    /\ b.inner.policy = policy
    /\ b.inner.hash = b.inner.source.hash
    /\ b.inner.area.width = area.width /\ b.inner.area.height = area.height
    /\ b.inner.area # area

IsUpload(c) == c.cmd = "upload"

InFlight(i) == {j \in worker : j.slot = i}

\* C12: at most one resize_encode is in flight on a state; a render writes
\* no partly written payload: each cell it wrote holds a payload that a
\* finished resize_encode left; a resize_encode in flight is never
\* abandoned: its next step is its write or its return, which leaves the
\* state as resize_encode leaves it; and every resize_encode begun returns.
C12_OneEncodeNoPartialRender ==
    /\ [](\A i \in Slot : Cardinality(InFlight(i)) <= 1)
    /\ [](last.op = "render" =>
            \A c \in Cells :
                /\ buf[c] # PartialPayload
                /\ buf[c] # NoPayload =>
                     buf[c] = Encode(last.variant, Acted.inner.source, buf[c].policy,
                                     buf[c].background, buf[c].area))
    /\ [][\A j \in worker :
            \/ j \in worker'
            \/ j.step = "started" /\ [j EXCEPT !.step = "writing"] \in worker'
            \/ /\ j.step = "writing"
               /\ slots'[j.slot] =
                    StatefulBlock_resize_encode(j.before, j.policy, j.background,
                                                j.area, j.ok)]_vars
    /\ \A i \in Slot : (InFlight(i) # {}) ~> (InFlight(i) = {})

\* The UI thread rendered the payload a worker encoded for one state while
\* a worker is writing the other state.
C12_Witness ==
    /\ last.op = "render"
    /\ \E c \in Cells : buf[c] = Acted.inner.payload /\ buf[c] # NoPayload
    /\ \E j \in worker : /\ j.slot # last.slot
                         /\ j.step = "writing"
                         /\ slots[j.slot].inner.payload = PartialPayload

(***************************************************************************)
(* Properties of the Protocol States' lives (SpecLife).                    *)
(***************************************************************************)
\* C6: dropping a kitty state sends exactly one command, the deletion of
\* the state's own object id, and no id is deleted while another live state
\* still places the object of that id.
C6_OneDeletionPerObject ==
    (last.op = "drop" /\ last.variant = "Kitty") =>
        /\ last.cmds = <<Cmd("delete", last.id, NoPayload, NoRect)>>
        /\ \A j \in Slot :
             (Live(j) /\ slots[j].variant = "Kitty" /\ slots[j].inner.transmitted)
                => slots[j].inner.id # last.id

\* C7: a resize_encode on one state leaves every other state as it was -
\* its cached area, policy, fingerprint and payload, and its source - and
\* leaves the image, font size, desired rectangle and fingerprint of the
\* encoded state's own source as they were.
C7_EncodeTouchesOneState ==
    [][last'.op = "resize_encode" =>
        /\ \A j \in Slot \ {last'.slot} : slots'[j] = slots[j]
        /\ slots'[last'.slot].inner.source = slots[last'.slot].inner.source
        /\ slots'[last'.slot].variant = slots[last'.slot].variant
    ]_vars

\* Two live states built from the same image, one just encoded and holding
\* a payload the other does not hold.
C7_Witness ==
    /\ last.op = "resize_encode"
    /\ \A j \in Slot : Live(j)
    /\ slots["a"].inner.source = slots["b"].inner.source
    /\ slots["a"].inner.source.image = Image("Ada", 300, 200)
    /\ slots["a"].inner.payload # slots["b"].inner.payload
    /\ Acted.inner.payload # NoPayload

(***************************************************************************)
(* Properties of ImageSource::new (SpecSource).                            *)
(***************************************************************************)
\* ceil(a / b) over the integers, b > 0.
CeilDiv(a, b) == (a + b - 1) \div b

Called == newOut # NoSource

\* C9: for an image of positive width and height and a font size of
\* positive components, the desired rectangle is at the origin, and is
\* ceil(pixel width / cell width) wide and ceil(pixel height / cell height)
\* high.
C9_DesiredIsCeil ==
    (/\ Called
     /\ newIn.width > 0 /\ newIn.height > 0
     /\ newIn.font_size[1] > 0 /\ newIn.font_size[2] > 0)
    => newOut.desired = Rect(0, 0, CeilDiv(newIn.width, newIn.font_size[1]),
                                   CeilDiv(newIn.height, newIn.font_size[2]))

\* C11: for an image of zero width or height, or a font size with a zero
\* component, ImageSource::new returns no ImageSource: none with any desired
\* rectangle ever comes back.
C11_ZeroSizeIsAnError ==
    (\/ newIn.width = 0 \/ newIn.height = 0
     \/ newIn.font_size[1] = 0 \/ newIn.font_size[2] = 0)
    => newOut = NoSource

\* The 300x200 image with the 7x14 font, handed to ImageSource::new.
DocExample ==
    /\ Called
    /\ newIn = [width |-> 300, height |-> 200, font_size |-> <<7, 14>>]

Picker_cycle_protocols(picker) ==
    [picker EXCEPT !.protocol_type =
        CASE picker.protocol_type = "Halfblocks" -> "Sixel"
          [] picker.protocol_type = "Sixel" -> "Kitty"
          [] picker.protocol_type = "Kitty" -> "Iterm2"
          [] picker.protocol_type = "Iterm2" -> "Halfblocks"]

\* image::io::Reader::open(path).decode(): the image of the file.
Decode(path) ==
    IF path = "./assets/Ada.png" THEN Image("Ada", 300, 200)
    ELSE Image("Jenkins", 100, 50)

\* The object ids the App's stateful protocols hold.
IdsOf(blocks) == {b.inner.id : b \in blocks} \ {NoId}

\* u16 addition and subtraction: the value modulo 2^16, and whether the
\* exact result was out of u16's range. With overflow checks (cargo's dev
\* profile) an out-of-range result panics; without (release) it wraps.
AddU16(a, b) == [value |-> (a + b) % (U16Max + 1), overflow |-> a + b > U16Max]
SubU16(a, b) == [value |-> (a - b + U16Max + 1) % (U16Max + 1), overflow |-> a < b]

\* App::new. Two fields are not fields of the struct: overflow_checks, the
\* build's setting (here the dev profile's), and panicked, whether the
\* thread has panicked.
App_new(protocol_type) ==
    LET dyn_img == Decode("./assets/Ada.png")
        picker == [protocol_type |-> protocol_type, font_size |-> FontSize]
        fit == Picker_new_resize_protocol(picker.protocol_type, dyn_img, {})
    IN  [should_quit |-> FALSE,
         show_images |-> "All",
         split_percent |-> 70,
         picker |-> picker,
         image_source |-> ImageSource_new(dyn_img, picker.font_size),
         image_source_path |-> "./assets/Ada.png",
         image_static |-> Picker_new_protocol(picker.protocol_type, dyn_img, size, "Fit"),
         image_fit_state |-> fit,
         image_crop_state |->
            Picker_new_resize_protocol(picker.protocol_type, dyn_img, IdsOf({fit})),
         image_static_offset |-> <<0, 0>>,
         overflow_checks |-> TRUE,
         panicked |-> FALSE]

\* What a key or a reset leaves: the App and the commands sent meanwhile.
Handled(a, cmds) == [app |-> a, cmds |-> cmds]

\* As App::reset_images, leaving the crop state as it was.
App_reset_images_keeping_crop(a) ==
    LET img == a.image_source.image
        fit == Picker_new_resize_protocol(a.picker.protocol_type, img,
                                          IdsOf({a.image_fit_state, a.image_crop_state}))
    IN  Handled([a EXCEPT
                    !.image_static = Picker_new_protocol(a.picker.protocol_type, img,
                                                         size, "Fit"),
                    !.image_fit_state = fit],
                StatefulBlock_drop(a.image_fit_state))

\* App::reset_images: each protocol is built anew from the source's image
\* and assigned, which drops the one the field held.
App_reset_images(a) ==
    LET img == a.image_source.image
        fit == Picker_new_resize_protocol(a.picker.protocol_type, img,
                                          IdsOf({a.image_fit_state, a.image_crop_state}))
        crop == Picker_new_resize_protocol(a.picker.protocol_type, img,
                                           IdsOf({fit, a.image_crop_state}))
    IN  Handled([a EXCEPT
                    !.image_static = Picker_new_protocol(a.picker.protocol_type, img,
                                                         size, "Fit"),
                    !.image_fit_state = fit,
                    !.image_crop_state = crop],
                StatefulBlock_drop(a.image_fit_state)
                \o StatefulBlock_drop(a.image_crop_state))

\* The result r of u16 arithmetic and the App with it assigned: a panic if it
\* overflowed under overflow checks, the wrapped value assigned otherwise.
Checked(a, r, assigned) ==
    IF r.overflow /\ a.overflow_checks
    THEN Handled([a EXCEPT !.panicked = TRUE], <<>>)
    ELSE Handled(assigned, <<>>)

SetSplit(a, v) == [a EXCEPT !.split_percent = v]
SetOffset0(a, v) == [a EXCEPT !.image_static_offset[1] = v]
SetOffset1(a, v) == [a EXCEPT !.image_static_offset[2] = v]

\* As the arm 'L' without its test of split_percent.
App_on_key_L_unguarded(a) == LET r == AddU16(a.split_percent, 10) IN Checked(a, r, SetSplit(a, r.value))

\* The arm 'H' of on_key.
App_on_key_H(a) ==
    IF a.split_percent >= 10
    THEN LET r == SubU16(a.split_percent, 10) IN Checked(a, r, SetSplit(a, r.value))
    ELSE Handled(a, <<>>)

\* The arm 'L' of on_key.
App_on_key_L(a) ==
    IF a.split_percent <= 90
    THEN LET r == AddU16(a.split_percent, 10) IN Checked(a, r, SetSplit(a, r.value))
    ELSE Handled(a, <<>>)

\* The arms 'h', 'j', 'k', 'l' of on_key: h and k test the component, j and
\* l do not.
App_on_key_h(a) ==
    IF a.image_static_offset[1] > 0
    THEN LET r == SubU16(a.image_static_offset[1], 1) IN Checked(a, r, SetOffset0(a, r.value))
    ELSE Handled(a, <<>>)

App_on_key_j(a) == LET r == AddU16(a.image_static_offset[2], 1) IN Checked(a, r, SetOffset1(a, r.value))

App_on_key_k(a) ==
    IF a.image_static_offset[2] > 0
    THEN LET r == SubU16(a.image_static_offset[2], 1) IN Checked(a, r, SetOffset1(a, r.value))
    ELSE Handled(a, <<>>)

App_on_key_l(a) == LET r == AddU16(a.image_static_offset[1], 1) IN Checked(a, r, SetOffset0(a, r.value))

\* App::on_key.
App_on_key(a, c) ==
    CASE c = "q" -> Handled([a EXCEPT !.should_quit = TRUE], <<>>)
      [] c = "t" ->
            Handled([a EXCEPT !.show_images =
                        CASE a.show_images = "All" -> "Fixed"
                          [] a.show_images = "Fixed" -> "Resized"
                          [] a.show_images = "Resized" -> "All"], <<>>)
      [] c = "i" ->
            App_reset_images([a EXCEPT !.picker = Picker_cycle_protocols(a.picker)])
      [] c = "o" ->
            LET path == IF a.image_source_path = "./assets/Ada.png"
                        THEN "./assets/Jenkins.jpg"
                        ELSE "./assets/Ada.png"
                dyn_img == Decode(path)
            IN  App_reset_images(
                    [a EXCEPT !.image_source = ImageSource_new(dyn_img, a.picker.font_size),
                              !.image_source_path = path])
      [] c = "H" -> App_on_key_H(a)
      [] c = "L" -> App_on_key_L(a)
      [] c = "h" -> App_on_key_h(a)
      [] c = "j" -> App_on_key_j(a)
      [] c = "k" -> App_on_key_k(a)
      [] c = "l" -> App_on_key_l(a)
      [] OTHER -> Handled(a, <<>>)

\* The keys that act on the images, and "x" for a key bound to nothing.
Keys == {"q", "t", "i", "o", "x"}

\* A key is read and handled.
OnKey(c) ==
    LET h == App_on_key(app, c) IN
    /\ ~app.should_quit
    /\ ~app.panicked
    /\ app' = h.app
    /\ term' = ApplyCmds(term, h.cmds)
    /\ frame' = NoFrame
    /\ last' = Last(c, "", Dead, "", "", NoRect, TRUE, None, <<>>, h.cmds)
    /\ UNCHANGED <<worker, newIn, newOut, slots, buf>>

\* As ui, with Resize::Fit(None) for the crop pane too.
ui_fit_twice(a, area, ok) ==
    LET rest == SubU16(100, a.split_percent)
        crop == StatefulImage_render(a.image_crop_state, "Fit", area, ok)
        fit == StatefulImage_render(a.image_fit_state, "Fit", area, ok)
        resized == a.show_images # "Fixed"
    IN  IF rest.overflow /\ a.overflow_checks
        THEN [app |-> [a EXCEPT !.panicked = TRUE], frame |-> NoFrame,
              calls |-> <<>>, cmds |-> <<>>]
        ELSE [app |-> IF resized
                      THEN [a EXCEPT !.image_crop_state = crop.state,
                                     !.image_fit_state = fit.state]
                      ELSE a,
              frame |->
                [static |-> IF a.show_images # "Resized"
                            THEN Written(BlankBuffer,
                                         Image_render(a.image_static, area),
                                         a.image_static.payload)
                            ELSE BlankBuffer,
                 crop |-> IF resized
                          THEN Written(BlankBuffer, crop.cells, crop.state.inner.payload)
                          ELSE BlankBuffer,
                 fit |-> IF resized
                         THEN Written(BlankBuffer, fit.cells, fit.state.inner.payload)
                         ELSE BlankBuffer,
                 constraints |-> <<a.split_percent, rest.value>>],
              calls |-> IF resized THEN crop.calls \o fit.calls ELSE <<>>,
              cmds |-> IF resized THEN crop.cmds \o fit.cmds ELSE <<>>]

\* ui(): the frame it draws, every pane `area` large, and the App after
\* it. The two horizontal constraints are computed first, in u16. The
\* static image is drawn unless only the resized ones are shown; the crop
\* and the fit images unless only the fixed one is.
ui(a, area, ok) ==
    LET rest == SubU16(100, a.split_percent)
        crop == StatefulImage_render(a.image_crop_state, "Crop", area, ok)
        fit == StatefulImage_render(a.image_fit_state, "Fit", area, ok)
        resized == a.show_images # "Fixed"
    IN  IF rest.overflow /\ a.overflow_checks
        THEN [app |-> [a EXCEPT !.panicked = TRUE], frame |-> NoFrame,
              calls |-> <<>>, cmds |-> <<>>]
        ELSE [app |-> IF resized
                      THEN [a EXCEPT !.image_crop_state = crop.state,
                                     !.image_fit_state = fit.state]
                      ELSE a,
              frame |->
                [static |-> IF a.show_images # "Resized"
                            THEN Written(BlankBuffer,
                                         Image_render(a.image_static, area),
                                         a.image_static.payload)
                            ELSE BlankBuffer,
                 crop |-> IF resized
                          THEN Written(BlankBuffer, crop.cells, crop.state.inner.payload)
                          ELSE BlankBuffer,
                 fit |-> IF resized
                         THEN Written(BlankBuffer, fit.cells, fit.state.inner.payload)
                         ELSE BlankBuffer,
                 constraints |-> <<a.split_percent, rest.value>>],
              calls |-> IF resized THEN crop.calls \o fit.calls ELSE <<>>,
              cmds |-> IF resized THEN crop.cmds \o fit.cmds ELSE <<>>]

\* A frame is drawn.
Draw(area, ok) ==
    LET u == ui(app, area, ok) IN
    /\ ~app.should_quit
    /\ ~app.panicked
    /\ app' = u.app
    /\ frame' = u.frame
    /\ term' = ApplyCmds(term, u.cmds)
    /\ last' = Last("draw", "", Dead, "", "None", area, ok, None, u.calls, u.cmds)
    /\ UNCHANGED <<worker, newIn, newOut, slots, buf>>

InitDemo ==
    /\ worker = {}
    /\ newIn = NoNewIn
    /\ newOut = NoSource
    /\ slots = [i \in Slot |-> Dead]
    /\ term = {}
    /\ buf = BlankBuffer
    /\ last = NoLast
    /\ \E v \in Variants : app = App_new(v)
    /\ frame = NoFrame

NextDemo ==
    \/ \E c \in Keys : OnKey(c)
    \/ \E a \in Areas, ok \in BOOLEAN : Draw(a, ok)

SpecDemo == InitDemo /\ [][NextDemo]_vars

(***************************************************************************)
(* SpecKeys: the demo under the keys that resize the split and move the    *)
(* static image, from App::new and from the offsets that presses of 'l'    *)
(* and 'j' lead to.                                                        *)
(***************************************************************************)
\* The offsets followed: those within MaxOffset of either end of u16.
NearEnd(n) == n <= MaxOffset \/ n >= U16Max - MaxOffset

SplitOffsetKeys == {"H", "L", "h", "j", "k", "l"}

\* A key is handled, while the offset stays near an end of u16.
OnKeyNear(c) ==
    /\ OnKey(c)
    /\ NearEnd(app'.image_static_offset[1])
    /\ NearEnd(app'.image_static_offset[2])

\* App::new built the App; 'l' was pressed x times and 'j' y times. The
\* build has overflow checks or has none.
InitKeys ==
    /\ worker = {}
    /\ newIn = NoNewIn
    /\ newOut = NoSource
    /\ slots = [i \in Slot |-> Dead]
    /\ term = {}
    /\ buf = BlankBuffer
    /\ last = NoLast
    /\ \E x, y \in {0, U16Max - MaxOffset}, checks \in BOOLEAN :
         app = [App_new("Halfblocks") EXCEPT !.image_static_offset = <<x, y>>,
                                             !.overflow_checks = checks]
    /\ frame = NoFrame

NextKeys ==
    \/ \E c \in SplitOffsetKeys : OnKeyNear(c)
    \/ \E a \in Areas, ok \in BOOLEAN : Draw(a, ok)

SpecKeys == InitKeys /\ [][NextKeys]_vars

\* C17: split_percent is always a multiple of 10 in 0..100; H subtracts 10
\* only when it is at least 10, L adds 10 only when it is at most 90, and
\* every other key leaves it as it was; ui's 100 - split_percent never
\* underflows, and the two percentage constraints of a frame sum to 100.
C17_SplitPercentInTens ==
    /\ [](/\ app.split_percent \in {10 * k : k \in 0..10}
          /\ ~SubU16(100, app.split_percent).overflow
          /\ last.op = "draw" =>
               /\ ~app.panicked
               /\ frame.constraints[1] + frame.constraints[2] = 100)
    /\ [][/\ last'.op = "H" =>
               app'.split_percent = IF app.split_percent >= 10
                                    THEN app.split_percent - 10
                                    ELSE app.split_percent
          /\ last'.op = "L" =>
               app'.split_percent = IF app.split_percent <= 90
                                    THEN app.split_percent + 10
                                    ELSE app.split_percent
          /\ last'.op \notin {"H", "L"} =>
               app'.split_percent = app.split_percent]_vars

\* A frame drawn with the split at 100 percent, reached by three presses
\* of L, and the right-hand constraint at 0.
C17_Witness ==
    /\ last.op = "draw"
    /\ app.split_percent = 100
    /\ frame.constraints = <<100, 0>>

\* C18: under the keys h, j, k, l the offset's u16 arithmetic never
\* overflows: h and k leave a component that is 0 as it is and otherwise
\* subtract exactly 1, l and j add exactly 1, the other component is left
\* alone, and both stay within 0..65535.
C18_OffsetNeverOverflows ==
    [][LET x == app.image_static_offset[1]
           y == app.image_static_offset[2]
           x2 == app'.image_static_offset[1]
           y2 == app'.image_static_offset[2]
       IN  last'.op \in {"h", "j", "k", "l"} =>
             /\ ~app'.panicked
             /\ x2 \in 0..U16Max /\ y2 \in 0..U16Max
             /\ last'.op = "h" => (x2 = (IF x = 0 THEN 0 ELSE x - 1) /\ y2 = y)
             /\ last'.op = "k" => (y2 = (IF y = 0 THEN 0 ELSE y - 1) /\ x2 = x)
             /\ last'.op = "l" => (x2 = x + 1 /\ y2 = y)
             /\ last'.op = "j" => (y2 = y + 1 /\ x2 = x)]_vars

(***************************************************************************)
(* Properties of the resize policies in the demo's frame (SpecDemo).       *)
(***************************************************************************)
\* A frame whose crop and fit panes were both encoded and drawn.
BothPanesDrawn ==
    /\ last.op = "draw" /\ last.ok
    /\ app.show_images # "Fixed"
    /\ ~app.panicked

\* The aspect of the image is not the aspect of the area, in pixels.
AspectDiffers(image, font_size, area) ==
    area.width * font_size[1] * image.height
        # area.height * font_size[2] * image.width

BuiltFromCurrent(a) ==
    /\ a.image_static =
         Picker_new_protocol(a.picker.protocol_type, a.image_source.image, size, "Fit")
    /\ a.image_fit_state.variant = a.picker.protocol_type
    /\ a.image_crop_state.variant = a.picker.protocol_type
    /\ a.image_fit_state.inner.source =
         ImageSource_new(a.image_source.image, a.picker.font_size)
    /\ a.image_crop_state.inner.source =
         ImageSource_new(a.image_source.image, a.picker.font_size)

\* Every payload of the frame was encoded by `proto` from the image of
\* fingerprint `hash`.
FrameIsOf(proto, hash) ==
    \A pane \in {"static", "crop", "fit"}, c \in Cells :
        frame[pane][c] # NoPayload =>
            (frame[pane][c].proto = proto /\ frame[pane][c].hash = hash)

\* C8: after the key i (the next backend) or o (the other image) the fixed,
\* the fit and the crop protocols are all newly built, of the picker's
\* backend and from the source's image, with nothing encoded in the fit and
\* crop states, so that needs_resize returns a target on each for every
\* policy and area; and every payload a frame shows was encoded by the
\* backend and from the image current when the frame is drawn.
C8_SwitchRebuildsAll ==
    /\ BuiltFromCurrent(app)
    /\ FrameIsOf(app.picker.protocol_type, app.image_source.hash)
    /\ last.op \in {"i", "o"} =>
         /\ IsFresh(app.image_fit_state)
         /\ IsFresh(app.image_crop_state)
         /\ \A p \in Policies, a \in Areas :
              /\ StatefulBlock_needs_resize(app.image_fit_state, p, a) = Some(a)
              /\ StatefulBlock_needs_resize(app.image_crop_state, p, a) = Some(a)

\* A frame drawn after the backend and the image were both switched: it
\* shows payloads of the new backend and image in every pane.
C8_Witness ==
    /\ last.op = "draw"
    /\ app.picker.protocol_type = "Kitty"
    /\ app.image_source.image = Image("Jenkins", 100, 50)
    /\ \A pane \in {"static", "crop", "fit"} :
         \E c \in Cells : frame[pane][c] # NoPayload

====
